---- MODULE Spec2Model ----
(***************************************************************************)
(* encrypt_file / decrypt_file of src/src/main.py: a password-based file   *)
(* envelope.  A key is derived from the password with Scrypt, the file is  *)
(* sealed with Fernet, and the Scrypt parameters travel with the token in  *)
(* a JSON object.                                                          *)
(*                                                                         *)
(* Bytes and characters are integers, byte strings and texts are sequences *)
(* of them.  base64, UTF-8 and JSON are computed as Python computes them.  *)
(* Scrypt, AES-CBC and HMAC-SHA256 are stand-ins of the same shape (same   *)
(* inputs, same output lengths, same checks in the same order) whose       *)
(* arithmetic is small.  On the inputs drawn they separate what the real   *)
(* functions separate up to negligible probability: different passwords,   *)
(* salts or parameters give different keys, and a changed token or key     *)
(* gives a tag that does not verify.                                       *)
(***************************************************************************)
EXTENDS Integers, Sequences, FiniteSets, TLC

\* LET x == e IN F(x), with e evaluated once however often F uses x.
Let(e, F(_)) == CHOOSE r \in {F(x) : x \in {e}} : TRUE

\* The sequence a function over 1..n is.
AsSeq(f) == <<>> \o f

(***************************************************************************)
(* Results of calls that may raise: exc = "" means the call returned.      *)
(***************************************************************************)
Ok(v) == [exc |-> "", val |-> v]

Raise(e) == [exc |-> e, val |-> <<>>]

(***************************************************************************)
(* base64.urlsafe_b64encode / base64.urlsafe_b64decode                      *)
(***************************************************************************)
PadChar == 61

\* The URL-safe alphabet: A-Z a-z 0-9 - _
B64Char(v) ==
  IF v < 26 THEN 65 + v
  ELSE IF v < 52 THEN 97 + (v - 26)
  ELSE IF v < 62 THEN 48 + (v - 52)
  ELSE IF v = 62 THEN 45 ELSE 95

\* binascii's decoding table after urlsafe_b64decode's translation of - and _
\* to + and /: the standard + and / stay accepted.  -1: not in the alphabet.
B64Value(c) ==
  IF c >= 65 /\ c <= 90 THEN c - 65
  ELSE IF c >= 97 /\ c <= 122 THEN c - 97 + 26
  ELSE IF c >= 48 /\ c <= 57 THEN c - 48 + 52
  ELSE IF c = 45 \/ c = 43 THEN 62
  ELSE IF c = 95 \/ c = 47 THEN 63
  ELSE -1

ByteAt(bs, k) == IF k < Len(bs) THEN bs[k + 1] ELSE 0

\* The character at place pos (0 to 3) of the quad that encodes the three
\* bytes from bs[3g + 1] on; "=" where the bytes have ended.
B64Quad(bs, g, pos) ==
  IF 3 * g + pos > Len(bs) THEN PadChar
  ELSE B64Char(
         CASE pos = 0 -> ByteAt(bs, 3 * g) \div 4
           [] pos = 1 -> (ByteAt(bs, 3 * g) % 4) * 16 + ByteAt(bs, 3 * g + 1) \div 16
           [] pos = 2 -> (ByteAt(bs, 3 * g + 1) % 16) * 4 + ByteAt(bs, 3 * g + 2) \div 64
           [] OTHER   -> ByteAt(bs, 3 * g + 2) % 64)

\* urlsafe_b64encode: 3 bytes to 4 characters, "=" padding to a multiple of 4.
urlsafe_b64encode(bytes) ==
  Let(bytes, LAMBDA bs :
    AsSeq([j \in 1..(4 * ((Len(bs) + 2) \div 3)) |-> B64Quad(bs, (j - 1) \div 4, (j - 1) % 4)]))

\* binascii.a2b_base64 without strict_mode, one character of its scan:
\* characters outside the alphabet are skipped; a "=" ends the input once the
\* open quad has at least two characters and the pads complete it.  st holds
\* the number of data characters read, the pads counted since the last of
\* them, the index the scan stopped at, and whether a pad ended it.
B64Feed(st, c, i) ==
  IF st.done THEN st
  ELSE IF c = PadChar
    THEN IF st.cnt % 4 >= 2
           THEN IF (st.cnt % 4) + st.pads + 1 >= 4
                  THEN [st EXCEPT !.stop = i, !.done = TRUE]
                  ELSE [st EXCEPT !.pads = st.pads + 1]
           ELSE st
  ELSE IF B64Value(c) < 0 THEN st
  ELSE [st EXCEPT !.cnt = st.cnt + 1, !.pads = 0]

\* The scan of s[lo..hi] from state st, left half first.
RECURSIVE B64Scan(_, _, _, _)
B64Scan(s, lo, hi, st) ==
  IF st.done \/ lo > hi THEN st
  ELSE IF lo = hi THEN B64Feed(st, s[lo], lo)
  ELSE Let((lo + hi) \div 2, LAMBDA mid :
         Let(B64Scan(s, lo, mid, st), LAMBDA left : B64Scan(s, mid + 1, hi, left)))

IsB64Data(c) == c # PadChar /\ B64Value(c) >= 0

\* The byte at place pos (0 to 2) of the three that the quad of data
\* characters from data[4g + 1] on decodes to.
B64Byte(data, g, pos) ==
  CASE pos = 0 -> B64Value(data[4 * g + 1]) * 4 + B64Value(data[4 * g + 2]) \div 16
    [] pos = 1 -> (B64Value(data[4 * g + 2]) % 16) * 16 + B64Value(data[4 * g + 3]) \div 4
    [] OTHER   -> (B64Value(data[4 * g + 3]) % 4) * 64 + B64Value(data[4 * g + 4])

\* The bytes that cnt data characters decode to: a last quad of two
\* characters gives one byte, of three gives two; the bits left over in its
\* last character are dropped.
B64ByteCount(cnt) ==
  3 * (cnt \div 4) + (IF cnt % 4 = 2 THEN 1 ELSE IF cnt % 4 = 3 THEN 2 ELSE 0)

\* urlsafe_b64decode of a byte string: binascii.Error when the data characters
\* do not fill their last quad and no padding completes it.
urlsafe_b64decode(text) ==
  Let(text, LAMBDA s :
    Let(B64Scan(s, 1, Len(s), [cnt |-> 0, pads |-> 0, stop |-> Len(s) + 1, done |-> FALSE]),
        LAMBDA sc :
      IF ~sc.done /\ sc.cnt % 4 # 0 THEN Raise("binascii.Error")
      ELSE Let(SelectSeq(SubSeq(s, 1, sc.stop - 1), IsB64Data), LAMBDA data :
             Ok(AsSeq([k \in 1..B64ByteCount(sc.cnt) |->
                         B64Byte(data, (k - 1) \div 3, (k - 1) % 3)])))))

(***************************************************************************)
(* str.encode("utf-8") and bytes.decode("utf-8")                           *)
(***************************************************************************)
\* The concatenation of ss[lo..hi].
RECURSIVE Concat(_, _, _)
Concat(ss, lo, hi) ==
  IF lo > hi THEN <<>>
  ELSE IF lo = hi THEN ss[lo]
  ELSE Let((lo + hi) \div 2, LAMBDA mid : Concat(ss, lo, mid) \o Concat(ss, mid + 1, hi))

Flatten(seqs) == Let(AsSeq(seqs), LAMBDA ss : Concat(ss, 1, Len(ss)))

IsSurrogate(cp) == cp >= 55296 /\ cp <= 57343

Utf8Bytes(cp) ==
  IF cp < 128 THEN <<cp>>
  ELSE IF cp < 2048 THEN <<192 + cp \div 64, 128 + (cp % 64)>>
  ELSE IF cp < 65536
    THEN <<224 + cp \div 4096, 128 + ((cp \div 64) % 64), 128 + (cp % 64)>>
  ELSE <<240 + cp \div 262144, 128 + ((cp \div 4096) % 64),
         128 + ((cp \div 64) % 64), 128 + (cp % 64)>>

\* str.encode("utf-8"): a lone surrogate cannot be encoded.
EncodeUtf8(str) ==
  Let(str, LAMBDA cps :
    IF \E i \in 1..Len(cps) : IsSurrogate(cps[i]) THEN Raise("UnicodeEncodeError")
    ELSE IF \A i \in 1..Len(cps) : cps[i] < 128 THEN Ok(cps)
    ELSE Ok(Flatten([i \in 1..Len(cps) |-> Utf8Bytes(cps[i])])))

\* bytes.decode("utf-8") as json.loads applies it to its input.  A byte of
\* 128 or more between two ASCII bytes (or at an end) starts or continues no
\* well-formed sequence.  Every input drawn holds at most one such byte, so a
\* text that decodes is ASCII and decodes to itself.
DecodeUtf8(bytes) ==
  Let(bytes, LAMBDA bs :
    IF \E i \in 1..Len(bs) :
         /\ bs[i] >= 128
         /\ (i = 1 \/ bs[i - 1] < 128)
         /\ (i = Len(bs) \/ bs[i + 1] < 128)
      THEN Raise("UnicodeDecodeError")
      ELSE Ok(bs))

(***************************************************************************)
(* json.loads and json.dumps, for the values the envelope holds: an object *)
(* whose members are strings and integers, or a top-level string or        *)
(* integer.  (Nested containers, floats and the literals true, false and   *)
(* null are in no input drawn.)                                            *)
(***************************************************************************)
Quote == 34

Backslash == 92

JStr(s) == [t |-> "str", s |-> s, v |-> 0]

JInt(v) == [t |-> "int", s |-> <<>>, v |-> v]

JErr == [exc |-> "JSONDecodeError", t |-> "", s |-> <<>>, v |-> 0, next |-> 0]

IsWs(c) == c \in {32, 9, 10, 13}

IsDigit(c) == c >= 48 /\ c <= 57

HexValue(c) ==
  IF IsDigit(c) THEN c - 48
  ELSE IF c >= 97 /\ c <= 102 THEN c - 87
  ELSE IF c >= 65 /\ c <= 70 THEN c - 55
  ELSE -1

\* The least member of a set of indices; none when the set is empty.
FirstOf(indices, none) ==
  Let(indices, LAMBDA S : IF S = {} THEN none ELSE CHOOSE k \in S : \A h \in S : k <= h)

\* The index of the first character from there on that is no whitespace.
RECURSIVE SkipWs(_, _)
SkipWs(T, from) ==
  Let(from, LAMBDA i : IF i <= Len(T) /\ IsWs(T[i]) THEN SkipWs(T, i + 1) ELSE i)

\* The simple escapes of a JSON string: \" \\ \/ \b \f \n \r \t.  -1: none.
EscapeValue(e) ==
  CASE e = 34 -> 34 [] e = 92 -> 92 [] e = 47 -> 47 [] e = 98 -> 8
    [] e = 102 -> 12 [] e = 110 -> 10 [] e = 114 -> 13 [] e = 116 -> 9
    [] OTHER -> -1

HasHex4(T, j) ==
  j + 3 <= Len(T) /\ \A k \in j..(j + 3) : HexValue(T[k]) >= 0

Hex4(T, j) ==
  HexValue(T[j]) * 4096 + HexValue(T[j + 1]) * 256
    + HexValue(T[j + 2]) * 16 + HexValue(T[j + 3])

\* scanstring (strict): from the character after the opening quote to the
\* closing quote; control characters, a bad escape and a missing closing
\* quote are errors.  A \uD800-\uDBFF followed by a \uDC00-\uDFFF is one
\* character, any other surrogate stays as it is.  ScanEscaped takes the
\* text from j to the next quote or backslash and goes on after an escape.
RECURSIVE ScanEscaped(_, _, _)
ScanEscaped(T, j, acc) ==
  Let(FirstOf({k \in j..Len(T) : T[k] = Quote \/ T[k] = Backslash}, Len(T) + 1), LAMBDA m :
    IF m > Len(T) \/ \E k \in j..(m - 1) : T[k] < 32 THEN JErr
    ELSE Let(acc \o SubSeq(T, j, m - 1), LAMBDA sofar :
      IF T[m] = Quote THEN [exc |-> "", t |-> "str", s |-> sofar, v |-> 0, next |-> m + 1]
      ELSE IF m + 1 > Len(T) THEN JErr
      ELSE IF T[m + 1] = 117
        THEN IF ~HasHex4(T, m + 2) THEN JErr
             ELSE Let(Hex4(T, m + 2), LAMBDA hi :
                    IF /\ hi >= 55296 /\ hi <= 56319
                       /\ m + 7 <= Len(T)
                       /\ T[m + 6] = Backslash /\ T[m + 7] = 117
                       /\ HasHex4(T, m + 8)
                       /\ Hex4(T, m + 8) >= 56320 /\ Hex4(T, m + 8) <= 57343
                      THEN ScanEscaped(T, m + 12,
                             Append(sofar, 65536 + (hi - 55296) * 1024 + (Hex4(T, m + 8) - 56320)))
                      ELSE ScanEscaped(T, m + 6, Append(sofar, hi)))
      ELSE IF EscapeValue(T[m + 1]) < 0 THEN JErr
      ELSE ScanEscaped(T, m + 2, Append(sofar, EscapeValue(T[m + 1])))))

ScanString(text, from) ==
  Let(text, LAMBDA T : Let(from, LAMBDA i :
    Let(FirstOf({j \in i..Len(T) : T[j] = Quote}, Len(T) + 1), LAMBDA q :
      IF \E j \in i..(q - 1) : T[j] = Backslash THEN ScanEscaped(T, i, <<>>)
      ELSE IF q > Len(T) \/ \E j \in i..(q - 1) : T[j] < 32 THEN JErr
      ELSE [exc |-> "", t |-> "str", s |-> SubSeq(T, i, q - 1), v |-> 0, next |-> q + 1])))

\* The index after the digits from there on.
RECURSIVE DigitsEnd(_, _)
DigitsEnd(T, from) ==
  Let(from, LAMBDA i : IF i <= Len(T) /\ IsDigit(T[i]) THEN DigitsEnd(T, i + 1) ELSE i)

RECURSIVE DecValue(_, _, _)
DecValue(T, i, e) == IF i >= e THEN 0 ELSE DecValue(T, i, e - 1) * 10 + (T[e - 1] - 48)

\* The integer at T[i]: -?(0|[1-9][0-9]*).  (No input drawn continues it as a
\* float, and every integer drawn has at most 9 digits.)
ScanInt(T, i) ==
  Let(IF i <= Len(T) /\ T[i] = 45 THEN i + 1 ELSE i, LAMBDA d :
    Let(IF d <= Len(T) /\ T[d] = 48 THEN d + 1 ELSE DigitsEnd(T, d), LAMBDA e :
      IF e = d THEN JErr
      ELSE [exc |-> "", t |-> "int", s |-> <<>>,
            v |-> IF d > i THEN 0 - DecValue(T, d, e) ELSE DecValue(T, d, e), next |-> e]))

ScanScalar(T, from) ==
  Let(from, LAMBDA i :
    IF i > Len(T) THEN JErr
    ELSE IF T[i] = Quote THEN ScanString(T, i + 1)
    ELSE IF IsDigit(T[i]) \/ T[i] = 45 THEN ScanInt(T, i)
    ELSE JErr)

JObjErr == [exc |-> "JSONDecodeError", t |-> "", keys |-> <<>>, vals |-> <<>>, s |-> <<>>, v |-> 0, next |-> 0]

\* What follows a member's value at index after: "}" ends the object, ","
\* leads to the next member.
RECURSIVE ScanMembers(_, _, _, _)
AfterMember(T, after, ks, vs) ==
  IF after > Len(T) THEN JObjErr
  ELSE IF T[after] = 125
    THEN [exc |-> "", t |-> "obj", keys |-> ks, vals |-> vs, s |-> <<>>, v |-> 0, next |-> after + 1]
  ELSE IF T[after] = 44 THEN ScanMembers(T, SkipWs(T, after + 1), ks, vs)
  ELSE JObjErr

\* The members of an object, from the first character of a key to the "}".
ScanMembers(T, from, keys, vals) ==
  Let(from, LAMBDA i :
    IF i > Len(T) \/ T[i] # Quote THEN JObjErr
    ELSE Let(ScanString(T, i + 1), LAMBDA key :
      IF key.exc # "" THEN JObjErr
      ELSE Let(SkipWs(T, key.next), LAMBDA colon :
        IF colon > Len(T) \/ T[colon] # 58 THEN JObjErr
        ELSE Let(ScanScalar(T, SkipWs(T, colon + 1)), LAMBDA val :
          IF val.exc # "" THEN JObjErr
          ELSE Let(SkipWs(T, val.next), LAMBDA after :
            Let(Append(keys, key.s), LAMBDA ks :
              Let(Append(vals, [t |-> val.t, s |-> val.s, v |-> val.v]), LAMBDA vs :
                AfterMember(T, after, ks, vs))))))))

ScanValue(T, from) ==
  Let(from, LAMBDA i :
    IF i > Len(T) THEN JObjErr
    ELSE IF T[i] = 123
      THEN Let(SkipWs(T, i + 1), LAMBDA j :
             IF j <= Len(T) /\ T[j] = 125
               THEN [exc |-> "", t |-> "obj", keys |-> <<>>, vals |-> <<>>,
                     s |-> <<>>, v |-> 0, next |-> j + 1]
               ELSE ScanMembers(T, j, <<>>, <<>>))
    ELSE Let(ScanScalar(T, i), LAMBDA sc :
           [exc |-> sc.exc, t |-> sc.t, keys |-> <<>>, vals |-> <<>>,
            s |-> sc.s, v |-> sc.v, next |-> sc.next]))

\* json.loads(bytes): decode, one value between optional whitespace, and
\* nothing after it.  val is [t, keys, vals, s, v].
json_loads(bytes) ==
  Let(DecodeUtf8(bytes), LAMBDA text :
    IF text.exc # "" THEN Raise(text.exc)
    ELSE Let(text.val, LAMBDA T :
      Let(ScanValue(T, SkipWs(T, 1)), LAMBDA val :
        IF val.exc # "" THEN Raise("JSONDecodeError")
        ELSE IF SkipWs(T, val.next) # Len(T) + 1 THEN Raise("JSONDecodeError")
        ELSE Ok([t |-> val.t, keys |-> val.keys, vals |-> val.vals, s |-> val.s, v |-> val.v]))))

\* obj[name] on the value json.loads returned: a dict keeps the last value of
\* a repeated key; anything but a dict cannot be indexed by a string.
Subscript(obj, name) ==
  IF obj.t # "obj" THEN Raise("TypeError")
  ELSE Let({k \in 1..Len(obj.keys) : obj.keys[k] = name}, LAMBDA hits :
         IF hits = {} THEN Raise("KeyError")
         ELSE Ok(obj.vals[CHOOSE k \in hits : \A h \in hits : h <= k]))

RECURSIVE DecDigits(_)
DecDigits(value) ==
  Let(value, LAMBDA v :
    IF v < 10 THEN <<48 + v>> ELSE Append(DecDigits(v \div 10), 48 + (v % 10)))

\* json.dumps of an integer or of a string.  (The strings dumped are base64
\* text and field names, which hold no character json.dumps escapes.)
DumpScalar(x) ==
  IF x.t = "int" THEN (IF x.v < 0 THEN <<45>> \o DecDigits(0 - x.v) ELSE DecDigits(x.v))
  ELSE <<Quote>> \o x.s \o <<Quote>>

\* The k-th member as json.dumps writes it: ", " before all but the first,
\* ": " between the key and the value.
DumpMember(ms, k) ==
  (IF k = 1 THEN <<>> ELSE <<44, 32>>)
    \o <<Quote>> \o ms[k][1] \o <<Quote, 58, 32>> \o DumpScalar(ms[k][2])

\* json.dumps of a dict, in insertion order, with the default separators.
\* members is a sequence of <<key, value>>.
json_dumps(members) ==
  Let(members, LAMBDA ms :
    <<123>> \o Flatten([k \in 1..Len(ms) |-> DumpMember(ms, k)]) \o <<125>>)

\* The six field names, as characters.
K_salt == <<115, 97, 108, 116>>

K_length == <<108, 101, 110, 103, 116, 104>>

K_n == <<110>>

K_r == <<114>>

K_p == <<112>>

K_ciphertext_b64 == <<99, 105, 112, 104, 101, 114, 116, 101, 120, 116, 95, 98, 54, 52>>

(***************************************************************************)
(* cryptography.hazmat.primitives.kdf.scrypt.Scrypt                        *)
(***************************************************************************)
RECURSIVE IsPowerOfTwo(_)
IsPowerOfTwo(n) == n = 1 \/ (n > 1 /\ n % 2 = 0 /\ IsPowerOfTwo(n \div 2))

RECURSIVE Log2(_)
Log2(n) == IF n <= 1 THEN 0 ELSE 1 + Log2(n \div 2)

\* Scrypt(salt=, length=, n=, r=, p=): the constructor compares n, r and p
\* with integers (TypeError for a string) and raises ValueError unless n is a
\* power of two above 1 and r and p are at least 1.  It checks no ceiling.
\* n, r, p and length are values as json.loads returned them.
Scrypt(salt, length, n, r, p) ==
  IF n.t # "int" THEN Raise("TypeError")
  ELSE IF n.v < 2 \/ ~IsPowerOfTwo(n.v) THEN Raise("ValueError")
  ELSE IF r.t # "int" THEN Raise("TypeError")
  ELSE IF r.v < 1 THEN Raise("ValueError")
  ELSE IF p.t # "int" THEN Raise("TypeError")
  ELSE IF p.v < 1 THEN Raise("ValueError")
  ELSE Ok([salt |-> salt, length |-> length.v, n |-> n.v, r |-> r.v, p |-> p.v])

\* OpenSSL's limit on r * p.
SCRYPT_PR_MAX == 1073741823

\* The limits OpenSSL's scrypt checks once derive has been called, before
\* it allocates: r * p above SCRYPT_PR_MAX, or n at least 2^(16 r).  (Every
\* integer drawn is below 2^31, so the second limit binds for r = 1 only, and
\* the memory limit of sys.maxsize // 2 bytes is never reached.)
ExceedsScryptLimits(n, r, p) ==
  \/ p > SCRYPT_PR_MAX \div r
  \/ (r = 1 /\ n >= 65536)

\* A checksum of bs[1..i] that depends on the order of the bytes.
RECURSIVE Digest(_, _)
Digest(bs, i) ==
  IF i = 0 THEN 7
  ELSE Let(Digest(bs, i - 1), LAMBDA h : (h * 31 + bs[i] + 1) % 251)

\* The stand-in for the scrypt function: length bytes, the same for the same
\* inputs, every byte depending on the password, the salt and n, r, p.
ScryptBytes(key_material, salt_bytes, length, n, r, p) ==
  Let(key_material, LAMBDA km : Let(salt_bytes, LAMBDA salt :
    Let(Digest(km, Len(km)) + 3 * Digest(salt, Len(salt)) + 5 * Log2(n)
          + 11 * (r % 256) + 17 * (p % 256), LAMBDA h :
      AsSeq([j \in 1..length |->
               (h * (2 * j + 1) + j
                  + (IF salt = <<>> THEN 0 ELSE salt[((j - 1) % Len(salt)) + 1])) % 256]))))

\* kdf.derive(key_material): MemoryError when OpenSSL refuses the parameters,
\* else the key.  (Every length drawn is a positive integer.)
derive(kdf, key_material) ==
  IF ExceedsScryptLimits(kdf.n, kdf.r, kdf.p) THEN Raise("MemoryError")
  ELSE Ok(ScryptBytes(key_material, kdf.salt, kdf.length, kdf.n, kdf.r, kdf.p))

(***************************************************************************)
(* cryptography.fernet.Fernet                                              *)
(***************************************************************************)
FernetVersion == 128

AesBlock == 16

TagLen == 32

\* Fernet(key): the key is base64 of 32 bytes, a signing half and an
\* encryption half; anything else is a ValueError.
Fernet(key) ==
  Let(urlsafe_b64decode(key), LAMBDA raw :
    IF raw.exc # "" \/ Len(raw.val) # 32 THEN Raise("ValueError")
    ELSE Ok([signing_key |-> SubSeq(raw.val, 1, 16),
             encryption_key |-> SubSeq(raw.val, 17, 32)]))

\* int.to_bytes(8, "big") of the token's timestamp.
RECURSIVE BigEndian(_, _)
BigEndian(v, width) ==
  IF width = 0 THEN <<>> ELSE Append(BigEndian(v \div 256, width - 1), v % 256)

\* PKCS7(128) padding: 1 to 16 bytes, each the number of bytes added.
Pkcs7Pad(data) ==
  Let(AesBlock - (Len(data) % AesBlock), LAMBDA k : data \o [i \in 1..k |-> k])

Pkcs7Unpad(padded) ==
  Let(Len(padded), LAMBDA n :
    Let(IF n = 0 THEN 0 ELSE padded[n], LAMBDA k :
      IF n = 0 \/ n % AesBlock # 0 \/ k < 1 \/ k > AesBlock
         \/ \E i \in (n - k + 1)..n : padded[i] # k
        THEN Raise("ValueError")
        ELSE Ok(SubSeq(padded, 1, n - k))))

\* The stand-in for AES-128-CBC: each block is chained to the block before
\* it (the IV for the first) and keyed bytewise; CbcDecrypt inverts it.
\* CbcBlocks appends the blocks from the k-th on to the ciphertext so far.
RECURSIVE CbcBlocks(_, _, _, _)
CbcBlocks(ek, padded, prev, k) ==
  IF AesBlock * (k - 1) >= Len(padded) THEN <<>>
  ELSE Let(AsSeq([j \in 1..AesBlock |->
                    (padded[AesBlock * (k - 1) + j] + prev[j] + ek[j]) % 256]), LAMBDA c :
         c \o CbcBlocks(ek, padded, c, k + 1))

CbcEncrypt(ek, iv, padded) == CbcBlocks(ek, padded, iv, 1)

CbcDecrypt(ek, iv, ct) ==
  IF Len(ct) % AesBlock # 0 THEN Raise("ValueError")
  ELSE Ok(AsSeq([k \in 1..Len(ct) |->
                   (ct[k] - (IF k <= AesBlock THEN iv[k] ELSE ct[k - AesBlock])
                      - ek[((k - 1) % AesBlock) + 1]) % 256]))

\* The weighted sum of the bytes of body at i, i + 32, i + 64, ...
RECURSIVE LaneSum(_, _)
LaneSum(body, i) ==
  IF i > Len(body) THEN 0
  ELSE (body[i] * (2 * ((i - 1) \div TagLen) + 1) + LaneSum(body, i + TagLen)) % 256

\* The stand-in for HMAC-SHA256: 32 bytes, each keyed, each a checksum of
\* one lane of the signed bytes and of their number.
Hmac(sk, signed) ==
  Let(signed, LAMBDA body :
    AsSeq([j \in 1..TagLen |->
             (3 * sk[((j - 1) % 16) + 1] + j + Len(body) + LaneSum(body, j)) % 256]))

\* Python's data[a:b] for 0 <= a and a non-negative or negative b.
Slice(data, a, b) ==
  Let(IF b < 0 THEN Len(data) + b ELSE b, LAMBDA e :
    Let(IF e > Len(data) THEN Len(data) ELSE e, LAMBDA hi :
      IF hi <= a THEN <<>> ELSE SubSeq(data, a + 1, hi)))

\* Fernet.encrypt(data), with the clock's reading and the 16 random bytes it
\* draws: 0x80, the time, the IV, the ciphertext and the tag, in base64.
Fernet_encrypt(f, data, current_time, iv) ==
  Let(CbcEncrypt(f.encryption_key, iv, Pkcs7Pad(data)), LAMBDA ciphertext :
    Let(<<FernetVersion>> \o BigEndian(current_time, 8) \o iv \o ciphertext, LAMBDA basic_parts :
      urlsafe_b64encode(basic_parts \o Hmac(f.signing_key, basic_parts))))

\* What decrypt does with the bytes of a token whose tag has verified.
FernetOpen(f, data) ==
  Let(CbcDecrypt(f.encryption_key, Slice(data, 9, 25), Slice(data, 25, 0 - TagLen)),
      LAMBDA padded :
    IF padded.exc # "" THEN Raise("InvalidToken")
    ELSE Let(Pkcs7Unpad(padded.val), LAMBDA plain :
           IF plain.exc # "" THEN Raise("InvalidToken") ELSE Ok(plain.val)))

\* Does the tag at the end of data verify?
TagVerifies(f, data) ==
  Slice(data, Len(data) - TagLen, Len(data)) = Hmac(f.signing_key, Slice(data, 0, 0 - TagLen))

\* Fernet.decrypt(token) without ttl: every failure is InvalidToken: base64
\* that does not decode, a first byte other than 0x80, fewer than 9 bytes,
\* a tag that does not verify, a ciphertext that is no whole number of
\* blocks, padding that is not PKCS7.
Fernet_decrypt(f, token) ==
  Let(urlsafe_b64decode(token), LAMBDA dec :
    IF dec.exc # "" THEN Raise("InvalidToken")
    ELSE Let(dec.val, LAMBDA data :
      IF data = <<>> \/ data[1] # FernetVersion THEN Raise("InvalidToken")
      ELSE IF Len(data) < 9 THEN Raise("InvalidToken")
      ELSE IF Len(data) < TagLen \/ ~TagVerifies(f, data) THEN Raise("InvalidToken")
      ELSE FernetOpen(f, data)))

(***************************************************************************)
(* The calls.  Each task is one use of the program: encrypt_file seals a   *)
(* file, the envelope travels (and may be changed on the way), and         *)
(* decrypt_file opens what arrives.  enc[t] and dec[t] are the two calls'  *)
(* frames: their arguments, their locals, and the line they are at.        *)
(***************************************************************************)
NTasks == 2

Tasks == 1..NTasks

VARIABLES
  enc,      \* enc[t]: the frame of task t's encrypt_file call
  dec,      \* dec[t]: the frame of task t's decrypt_file call
  wire,     \* wire[t]: the bytes handed to decrypt_file, and where they came from
  entropy   \* what os.urandom and time.time may return in this run

vars == <<enc, dec, wire, entropy>>

NoKdf == [salt |-> <<>>, length |-> 0, n |-> 0, r |-> 0, p |-> 0]

NoJson == [t |-> "", keys |-> <<>>, vals |-> <<>>, s |-> <<>>, v |-> 0]

NoScalar == [t |-> "", s |-> <<>>, v |-> 0]

NoResult == [exc |-> "", val |-> <<>>]

\* encrypt_file(password, file_bytes) at its first statement.
NewEnc(password, file_bytes) ==
  [pc |-> "62", password |-> password, file_bytes |-> file_bytes,
   salt |-> <<>>, length |-> 0, n |-> 0, r |-> 0, p |-> 0, kdf |-> NoKdf,
   symmetric_key |-> <<>>, iv |-> <<>>, now |-> 0, ciphertext |-> <<>>,
   encrypted_message |-> <<>>, ret |-> NoResult]

\* decrypt_file(password, file_bytes) before the call: the password is the
\* one the caller will pass, file_bytes arrives with the envelope.  line is
\* the line an exception was raised at; derive_called and derive_returned
\* tell whether kdf.derive was entered and whether it came back with a key.
NewDec(password) ==
  [pc |-> "idle", password |-> password, file_bytes |-> <<>>,
   encrypted_message |-> NoJson, salt |-> <<>>,
   length |-> NoScalar, n |-> NoScalar, r |-> NoScalar, p |-> NoScalar,
   kdf |-> NoKdf, symmetric_key |-> <<>>, ciphertext |-> <<>>, plaintext |-> <<>>,
   ret |-> NoResult, line |-> 0, derive_called |-> FALSE, derive_returned |-> FALSE]

NoWire == [how |-> "", bytes |-> <<>>, field |-> 0, at |-> 0, bit |-> 0]

\* The end of a call by an exception raised at a line.
Fail(f, e, line) == [f EXCEPT !.pc = "done", !.ret = Raise(e), !.line = line]

\* The module's PASSWORD, the password main() seals with: "correct horse".
PASSWORD == <<99, 111, 114, 114, 101, 99, 116, 32, 104, 111, 114, 115, 101>>

\* The key material were it taken from the module's PASSWORD, whatever the
\* call's argument.
KeyMaterialOfGlobal(password) == EncodeUtf8(PASSWORD)

\* password.encode("utf-8")
KeyMaterial(password) == EncodeUtf8(password)

\* x.encode("utf-8") on a value json.loads returned: an integer has no encode.
StrEncode(x) == IF x.t # "str" THEN Raise("AttributeError") ELSE EncodeUtf8(x.s)

(***************************************************************************)
(* encrypt_file, line by line                                              *)
(***************************************************************************)
SaltLen == 32

DefaultLength == 32

DefaultN == 131072

DefaultR == 8

DefaultP == 1

\* The dict with the salt last and the token first.
EnvelopeMembersSwapped(salt, length, n, r, p, ciphertext) ==
  << <<K_ciphertext_b64, JStr(urlsafe_b64encode(ciphertext))>>,
     <<K_length, JInt(length)>>,
     <<K_n, JInt(n)>>,
     <<K_r, JInt(r)>>,
     <<K_p, JInt(p)>>,
     <<K_salt, JStr(urlsafe_b64encode(salt))>> >>

\* The dict encrypt_file dumps: six members in this order, the salt and the
\* token in base64.
EnvelopeMembers(salt, length, n, r, p, ciphertext) ==
  << <<K_salt, JStr(urlsafe_b64encode(salt))>>,
     <<K_length, JInt(length)>>,
     <<K_n, JInt(n)>>,
     <<K_r, JInt(r)>>,
     <<K_p, JInt(p)>>,
     <<K_ciphertext_b64, JStr(urlsafe_b64encode(ciphertext))>> >>

\* Lines 62-64: the salt is drawn, the parameters are the defaults.
Enc62(f, salt) ==
  [f EXCEPT !.salt = salt, !.length = DefaultLength, !.n = DefaultN,
            !.r = DefaultR, !.p = DefaultP, !.pc = "66"]

\* Line 66: kdf = Scrypt(...)
Enc66(f) ==
  Let(Scrypt(f.salt, JInt(f.length), JInt(f.n), JInt(f.r), JInt(f.p)), LAMBDA k :
    IF k.exc # "" THEN [f EXCEPT !.pc = "done", !.ret = Raise(k.exc)]
    ELSE [f EXCEPT !.kdf = k.val, !.pc = "67"])

\* Line 67: symmetric_key = urlsafe_b64encode(kdf.derive(password.encode()))
Enc67(f) ==
  Let(KeyMaterial(f.password), LAMBDA km :
    IF km.exc # "" THEN [f EXCEPT !.pc = "done", !.ret = Raise(km.exc)]
    ELSE Let(derive(f.kdf, km.val), LAMBDA key :
           IF key.exc # "" THEN [f EXCEPT !.pc = "done", !.ret = Raise(key.exc)]
           ELSE [f EXCEPT !.symmetric_key = urlsafe_b64encode(key.val), !.pc = "69"]))

\* Line 69: ciphertext = Fernet(symmetric_key).encrypt(file_bytes); Fernet
\* reads the clock and draws its IV.
Enc69(f, now, iv) ==
  Let(Fernet(f.symmetric_key), LAMBDA fer :
    IF fer.exc # "" THEN [f EXCEPT !.pc = "done", !.ret = Raise(fer.exc)]
    ELSE [f EXCEPT !.now = now, !.iv = iv,
                   !.ciphertext = Fernet_encrypt(fer.val, f.file_bytes, now, iv),
                   !.pc = "70"])

\* Lines 70-79: encrypted_message = json.dumps({...}).encode("utf-8")
Enc70(f) ==
  Let(EncodeUtf8(json_dumps(EnvelopeMembers(f.salt, f.length, f.n, f.r, f.p, f.ciphertext))),
      LAMBDA text :
    IF text.exc # "" THEN [f EXCEPT !.pc = "done", !.ret = Raise(text.exc)]
    ELSE [f EXCEPT !.encrypted_message = text.val, !.pc = "81"])

\* Line 81: return encrypted_message
Enc81(f) == [f EXCEPT !.ret = Ok(f.encrypted_message), !.pc = "done"]

(***************************************************************************)
(* decrypt_file, line by line                                              *)
(***************************************************************************)
\* The statements with the token read and decoded before the key is derived.
NextLineTokenFirst(line) ==
  CASE line = "95" -> "97" [] line = "97" -> "98" [] line = "98" -> "99"
    [] line = "99" -> "101" [] line = "101" -> "106" [] line = "106" -> "102"
    [] line = "102" -> "109" [] line = "109" -> "111" [] OTHER -> "done"

\* The order of decrypt_file's statements.
NextLine(line) ==
  CASE line = "95" -> "97" [] line = "97" -> "98" [] line = "98" -> "99"
    [] line = "99" -> "101" [] line = "101" -> "102" [] line = "102" -> "106"
    [] line = "106" -> "109" [] line = "109" -> "111" [] OTHER -> "done"

\* Line 95: encrypted_message = json.loads(file_bytes)
Dec95(f) ==
  Let(json_loads(f.file_bytes), LAMBDA m :
    IF m.exc # "" THEN Fail(f, m.exc, 95)
    ELSE [f EXCEPT !.encrypted_message = m.val, !.pc = NextLine("95")])

\* base64.urlsafe_b64decode(encrypted_message[name].encode("utf-8"))
FieldBytes(encrypted_message, name) ==
  Let(Subscript(encrypted_message, name), LAMBDA x :
    IF x.exc # "" THEN Raise(x.exc)
    ELSE Let(StrEncode(x.val), LAMBDA b :
           IF b.exc # "" THEN Raise(b.exc) ELSE urlsafe_b64decode(b.val)))

\* Line 97: salt = urlsafe_b64decode(encrypted_message["salt"].encode())
Dec97(f) ==
  Let(FieldBytes(f.encrypted_message, K_salt), LAMBDA salt :
    IF salt.exc # "" THEN Fail(f, salt.exc, 97)
    ELSE [f EXCEPT !.salt = salt.val, !.pc = NextLine("97")])

\* Line 98: length = encrypted_message["length"]
Dec98(f) ==
  Let(Subscript(f.encrypted_message, K_length), LAMBDA length :
    IF length.exc # "" THEN Fail(f, length.exc, 98)
    ELSE [f EXCEPT !.length = length.val, !.pc = NextLine("98")])

\* Line 99: n, r, p = encrypted_message["n"], ...["r"], ...["p"]
Dec99(f) ==
  Let(Subscript(f.encrypted_message, K_n), LAMBDA n :
    IF n.exc # "" THEN Fail(f, n.exc, 99)
    ELSE Let(Subscript(f.encrypted_message, K_r), LAMBDA r :
      IF r.exc # "" THEN Fail(f, r.exc, 99)
      ELSE Let(Subscript(f.encrypted_message, K_p), LAMBDA p :
        IF p.exc # "" THEN Fail(f, p.exc, 99)
        ELSE [f EXCEPT !.n = n.val, !.r = r.val, !.p = p.val, !.pc = NextLine("99")])))

\* The arguments were they encrypt_file's defaults, but for the salt.
KdfArgsDefault(f) ==
  [salt |-> f.salt, length |-> JInt(DefaultLength), n |-> JInt(DefaultN),
   r |-> JInt(DefaultR), p |-> JInt(DefaultP)]

\* The arguments were the salt kept in one place for all calls.
KdfArgsShared(f) ==
  [salt |-> dec[1].salt, length |-> f.length, n |-> f.n, r |-> f.r, p |-> f.p]

\* The arguments of line 101's Scrypt(...): the call's own locals, which hold
\* what the envelope said.
KdfArgs(f) == [salt |-> f.salt, length |-> f.length, n |-> f.n, r |-> f.r, p |-> f.p]

\* Line 101: kdf = Scrypt(salt=salt, length=length, n=n, r=r, p=p)
Dec101(f) ==
  Let(KdfArgs(f), LAMBDA a :
    Let(Scrypt(a.salt, a.length, a.n, a.r, a.p), LAMBDA k :
      IF k.exc # "" THEN Fail(f, k.exc, 101)
      ELSE [f EXCEPT !.kdf = k.val, !.pc = NextLine("101")]))

\* Lines 102-104: symmetric_key = urlsafe_b64encode(kdf.derive(password.encode()))
Dec102(f) ==
  Let(KeyMaterial(f.password), LAMBDA km :
    IF km.exc # "" THEN Fail(f, km.exc, 102)
    ELSE Let(derive(f.kdf, km.val), LAMBDA key :
           IF key.exc # "" THEN [Fail(f, key.exc, 102) EXCEPT !.derive_called = TRUE]
           ELSE [f EXCEPT !.symmetric_key = urlsafe_b64encode(key.val),
                          !.derive_called = TRUE, !.derive_returned = TRUE,
                          !.pc = NextLine("102")]))

\* Lines 106-108: ciphertext = urlsafe_b64decode(
\*                   encrypted_message["ciphertext_b64"].encode())
Dec106(f) ==
  Let(FieldBytes(f.encrypted_message, K_ciphertext_b64), LAMBDA ciphertext :
    IF ciphertext.exc # "" THEN Fail(f, ciphertext.exc, 106)
    ELSE [f EXCEPT !.ciphertext = ciphertext.val, !.pc = NextLine("106")])

\* Line 109: plaintext = Fernet(symmetric_key).decrypt(ciphertext)
Dec109(f) ==
  Let(Fernet(f.symmetric_key), LAMBDA fer :
    IF fer.exc # "" THEN Fail(f, fer.exc, 109)
    ELSE Let(Fernet_decrypt(fer.val, f.ciphertext), LAMBDA plaintext :
           IF plaintext.exc # "" THEN Fail(f, plaintext.exc, 109)
           ELSE [f EXCEPT !.plaintext = plaintext.val, !.pc = NextLine("109")]))

\* The return of the token instead of the plaintext.
Dec111Token(f) == [f EXCEPT !.ret = Ok(f.ciphertext), !.pc = "done"]

\* Line 111: return plaintext
Dec111(f) == [f EXCEPT !.ret = Ok(f.plaintext), !.pc = "done"]

(***************************************************************************)
(* The two functions as wholes: their statements in order, with what       *)
(* os.urandom and the clock returned as arguments.                         *)
(***************************************************************************)
EncStep(f, salt, now, iv) ==
  CASE f.pc = "62" -> Enc62(f, salt)
    [] f.pc = "66" -> Enc66(f)
    [] f.pc = "67" -> Enc67(f)
    [] f.pc = "69" -> Enc69(f, now, iv)
    [] f.pc = "70" -> Enc70(f)
    [] OTHER -> Enc81(f)

RECURSIVE RunEnc(_, _, _, _)
RunEnc(frame, salt, now, iv) ==
  Let(frame, LAMBDA f :
    IF f.pc = "done" THEN f ELSE RunEnc(EncStep(f, salt, now, iv), salt, now, iv))

encrypt_file(password, file_bytes, salt, now, iv) ==
  RunEnc(NewEnc(password, file_bytes), salt, now, iv).ret

DecStep(f) ==
  CASE f.pc = "95" -> Dec95(f)
    [] f.pc = "97" -> Dec97(f)
    [] f.pc = "98" -> Dec98(f)
    [] f.pc = "99" -> Dec99(f)
    [] f.pc = "101" -> Dec101(f)
    [] f.pc = "102" -> Dec102(f)
    [] f.pc = "106" -> Dec106(f)
    [] f.pc = "109" -> Dec109(f)
    [] OTHER -> Dec111(f)

RECURSIVE RunDec(_)
RunDec(frame) ==
  Let(frame, LAMBDA f : IF f.pc = "done" THEN f ELSE RunDec(DecStep(f)))

\* decrypt_file(password, file_bytes) at its first statement.
CallDec(f, file_bytes) == [f EXCEPT !.pc = "95", !.file_bytes = file_bytes]

decrypt_file(password, file_bytes) == RunDec(CallDec(NewDec(password), file_bytes)).ret

(***************************************************************************)
(* What the runs draw from                                                 *)
(***************************************************************************)
\* "correct horse" and "wrong horse"
Passwords ==
  { <<99, 111, 114, 114, 101, 99, 116, 32, 104, 111, 114, 115, 101>>,
    <<119, 114, 111, 110, 103, 32, 104, 111, 114, 115, 101>> }

Pattern(len, a, b) == AsSeq([j \in 1..len |-> (a * j + b) % 256])

\* Files of 0, 11 ("hello world"), 16 and 32 bytes: tokens of 100, 100, 120
\* and 140 characters, whose base64 ends in "==", in "==", in neither and
\* in "=".
HelloWorld == <<104, 101, 108, 108, 111, 32, 119, 111, 114, 108, 100>>

Messages == {<<>>, HelloWorld, Pattern(16, 37, 11), Pattern(32, 201, 90)}

Salts == {Pattern(SaltLen, 0, 0), Pattern(SaltLen, 7, 3)}

IVs == {Pattern(AesBlock, 1, 0), Pattern(AesBlock, 13, 5)}

\* 2024-03-01 00:00:00 UTC
Clock == {1709251200}

FullEntropy == [salts |-> Salts, ivs |-> IVs, clock |-> Clock]

(***************************************************************************)
(* encrypt_file's steps                                                    *)
(***************************************************************************)
L62(t) ==
  /\ enc[t].pc = "62"
  /\ \E salt \in entropy.salts : enc' = [enc EXCEPT ![t] = Enc62(@, salt)]
  /\ UNCHANGED <<dec, wire, entropy>>

L66(t) ==
  /\ enc[t].pc = "66"
  /\ enc' = [enc EXCEPT ![t] = Enc66(@)]
  /\ UNCHANGED <<dec, wire, entropy>>

L67(t) ==
  /\ enc[t].pc = "67"
  /\ enc' = [enc EXCEPT ![t] = Enc67(@)]
  /\ UNCHANGED <<dec, wire, entropy>>

L69(t) ==
  /\ enc[t].pc = "69"
  /\ \E now \in entropy.clock, iv \in entropy.ivs :
       enc' = [enc EXCEPT ![t] = Enc69(@, now, iv)]
  /\ UNCHANGED <<dec, wire, entropy>>

L70(t) ==
  /\ enc[t].pc = "70"
  /\ enc' = [enc EXCEPT ![t] = Enc70(@)]
  /\ UNCHANGED <<dec, wire, entropy>>

L81(t) ==
  /\ enc[t].pc = "81"
  /\ enc' = [enc EXCEPT ![t] = Enc81(@)]
  /\ UNCHANGED <<dec, wire, entropy>>

(***************************************************************************)
(* decrypt_file's steps                                                    *)
(***************************************************************************)
L95(t) ==
  /\ dec[t].pc = "95"
  /\ dec' = [dec EXCEPT ![t] = Dec95(@)]
  /\ UNCHANGED <<enc, wire, entropy>>

L97(t) ==
  /\ dec[t].pc = "97"
  /\ dec' = [dec EXCEPT ![t] = Dec97(@)]
  /\ UNCHANGED <<enc, wire, entropy>>

L98(t) ==
  /\ dec[t].pc = "98"
  /\ dec' = [dec EXCEPT ![t] = Dec98(@)]
  /\ UNCHANGED <<enc, wire, entropy>>

L99(t) ==
  /\ dec[t].pc = "99"
  /\ dec' = [dec EXCEPT ![t] = Dec99(@)]
  /\ UNCHANGED <<enc, wire, entropy>>

L101(t) ==
  /\ dec[t].pc = "101"
  /\ dec' = [dec EXCEPT ![t] = Dec101(@)]
  /\ UNCHANGED <<enc, wire, entropy>>

L102(t) ==
  /\ dec[t].pc = "102"
  /\ dec' = [dec EXCEPT ![t] = Dec102(@)]
  /\ UNCHANGED <<enc, wire, entropy>>

L106(t) ==
  /\ dec[t].pc = "106"
  /\ dec' = [dec EXCEPT ![t] = Dec106(@)]
  /\ UNCHANGED <<enc, wire, entropy>>

L109(t) ==
  /\ dec[t].pc = "109"
  /\ dec' = [dec EXCEPT ![t] = Dec109(@)]
  /\ UNCHANGED <<enc, wire, entropy>>

L111(t) ==
  /\ dec[t].pc = "111"
  /\ dec' = [dec EXCEPT ![t] = Dec111(@)]
  /\ UNCHANGED <<enc, wire, entropy>>

(***************************************************************************)
(* The envelope's way from encrypt_file to decrypt_file.  Each action      *)
(* below hands decrypt_file its file_bytes: the envelope as returned, or   *)
(* the envelope changed in one way, or bytes from elsewhere.               *)
(***************************************************************************)
Sealed(t) == enc[t].pc = "done" /\ enc[t].ret.exc = "" /\ wire[t].how = ""

Hand(t, w) ==
  /\ wire' = [wire EXCEPT ![t] = w]
  /\ dec' = [dec EXCEPT ![t] = CallDec(@, w.bytes)]
  /\ UNCHANGED <<enc, entropy>>

\* The members of a dumped envelope, as <<key, value>> in their order.
Members(bytes) ==
  Let(json_loads(bytes).val, LAMBDA m :
    AsSeq([k \in 1..Len(m.keys) |-> <<m.keys[k], m.vals[k]>>]))

FieldCount == 6

RemoveAt(seq, k) == SubSeq(seq, 1, k - 1) \o SubSeq(seq, k + 1, Len(seq))

\* The envelope unchanged.
Deliver(t) ==
  /\ Sealed(t)
  /\ Hand(t, [NoWire EXCEPT !.how = "intact", !.bytes = enc[t].ret.val])

FlipBitOf(c, bit) ==
  IF (c \div (2 ^ bit)) % 2 = 1 THEN c - (2 ^ bit) ELSE c + (2 ^ bit)

\* The length of the ciphertext_b64 string of task t's envelope, which ends
\* the document: its characters are followed by the closing quote and "}".
CiphertextB64Len(t) == 4 * ((Len(enc[t].ciphertext) + 2) \div 3)

\* One bit of one character of the ciphertext_b64 field flipped.
FlipBit(t) ==
  /\ Sealed(t)
  /\ \E at \in 1..CiphertextB64Len(t), bit \in 0..7 :
       \E pos \in {Len(enc[t].ret.val) - 2 - CiphertextB64Len(t) + at} :
         Hand(t, [NoWire EXCEPT !.how = "flip", !.field = FieldCount, !.at = at, !.bit = bit,
                                !.bytes = [enc[t].ret.val EXCEPT ![pos] = FlipBitOf(@, bit)]])

\* One of the six members removed.
RemoveField(t) ==
  /\ Sealed(t)
  /\ \E ms \in {Members(enc[t].ret.val)} :
       \E k \in 1..FieldCount :
         Hand(t, [NoWire EXCEPT !.how = "remove", !.field = k,
                                !.bytes = json_dumps(RemoveAt(ms, k))])

\* A base64 text that is base64 no longer: a character replaced by "*"
\* (42), a "*" inserted, or a character (of the data or of the padding)
\* dropped.
Corrupted(text, kind, at) ==
  CASE kind = "replace" -> [text EXCEPT ![at] = 42]
    [] kind = "insert" -> SubSeq(text, 1, at - 1) \o <<42>> \o SubSeq(text, at, Len(text))
    [] OTHER -> RemoveAt(text, at)

CorruptKinds == <<"replace", "insert", "delete">>

\* The salt (member 1) or the ciphertext_b64 (member 6) corrupted at its
\* first, a middle or its last character; wire[t].bit tells the kind.
CorruptField(t) ==
  /\ Sealed(t)
  /\ \E ms \in {Members(enc[t].ret.val)} :
       \E k \in {1, FieldCount}, kind \in 1..Len(CorruptKinds) :
         \E at \in {1, Len(ms[k][2].s) \div 2, Len(ms[k][2].s)} :
           Hand(t, [NoWire EXCEPT
                      !.how = "corrupt", !.field = k, !.at = at, !.bit = kind,
                      !.bytes = json_dumps([ms EXCEPT ![k] =
                                  <<ms[k][1], JStr(Corrupted(ms[k][2].s, CorruptKinds[kind], at))>>])])

\* Members 2 to 5 (length, n, r, p) as somebody else may set them: n that is
\* no power of two, or 0, or a string; r or p of 0; parameters OpenSSL's
\* limits refuse (n = 2^17 with r = 1, r * p = 2^30); a key of 16 bytes; and
\* valid parameters that are not the ones the key was derived with.
ForeignParams ==
  { <<JInt(32), JInt(3), JInt(8), JInt(1)>>,
    <<JInt(32), JInt(0), JInt(8), JInt(1)>>,
    <<JInt(32), JStr(<<49, 54>>), JInt(8), JInt(1)>>,
    <<JInt(32), JInt(131072), JInt(0), JInt(1)>>,
    <<JInt(32), JInt(131072), JInt(8), JInt(0)>>,
    <<JInt(32), JInt(131072), JInt(1), JInt(1)>>,
    <<JInt(32), JInt(16384), JInt(32768), JInt(32768)>>,
    <<JInt(16), JInt(131072), JInt(8), JInt(1)>>,
    <<JInt(32), JInt(16384), JInt(8), JInt(1)>> }

SetParams(t) ==
  /\ Sealed(t)
  /\ \E ms \in {Members(enc[t].ret.val)} :
       \E ps \in ForeignParams :
         Hand(t, [NoWire EXCEPT
                    !.how = "params",
                    !.bytes = json_dumps([k \in 1..Len(ms) |->
                                IF k \in 2..5 THEN <<ms[k][1], ps[k - 1]>> ELSE ms[k]])])

\* Parameter sets another sealer may use, all valid and none the default:
\* <<length, n, r, p>>, with salts of 16 bytes.
OtherParams == {<<32, 16384, 8, 1>>, <<32, 2, 1, 1>>, <<32, 32768, 4, 2>>}

OtherSalts == {Pattern(16, 5, 9)}

\* encrypt_file's statements from line 66 on, run on other parameters and
\* another salt.
Seal(password, file_bytes, salt, ps, now, iv) ==
  RunEnc([NewEnc(password, file_bytes) EXCEPT
            !.salt = salt, !.length = ps[1], !.n = ps[2], !.r = ps[3], !.p = ps[4],
            !.pc = "66"],
         salt, now, iv)

\* An envelope sealed elsewhere under other parameters, for the same
\* password and file; encrypt_file is not called.
SealElsewhere(t) ==
  /\ enc[t].pc = "62"
  /\ wire[t].how = ""
  /\ \E ps \in OtherParams, salt \in OtherSalts, now \in entropy.clock, iv \in entropy.ivs :
       \E f \in {Seal(enc[t].password, enc[t].file_bytes, salt, ps, now, iv)} :
         /\ f.ret.exc = ""
         /\ wire' = [wire EXCEPT ![t] = [NoWire EXCEPT !.how = "elsewhere", !.bytes = f.ret.val]]
         /\ dec' = [dec EXCEPT ![t] = CallDec(@, f.ret.val)]
         /\ enc' = [enc EXCEPT ![t] = [f EXCEPT !.pc = "elsewhere"]]
         /\ UNCHANGED entropy

\* Bytes that are no envelope: no JSON ("not json"), nothing, JSON that is
\* no object ("7"), an empty object.
Junk ==
  { <<110, 111, 116, 32, 106, 115, 111, 110>>, <<>>, <<55>>, <<123, 125>> }

HandJunk(t) ==
  /\ enc[t].pc = "62"
  /\ wire[t].how = ""
  /\ \E j \in Junk :
       /\ wire' = [wire EXCEPT ![t] = [NoWire EXCEPT !.how = "junk", !.bytes = j]]
       /\ dec' = [dec EXCEPT ![t] = CallDec(@, j)]
       /\ enc' = [enc EXCEPT ![t].pc = "unused"]
       /\ UNCHANGED entropy

(***************************************************************************)
(* Specifications                                                          *)
(***************************************************************************)
OffEnc == [NewEnc(<<>>, <<>>) EXCEPT !.pc = "off"]

OffDec == [NewDec(<<>>) EXCEPT !.pc = "off"]

EncryptStep(t) == L62(t) \/ L66(t) \/ L67(t) \/ L69(t) \/ L70(t) \/ L81(t)

DecryptStep(t) ==
  L95(t) \/ L97(t) \/ L98(t) \/ L99(t) \/ L101(t) \/ L102(t) \/ L106(t) \/ L109(t) \/ L111(t)

\* One task at a time: any password, any file, any password to open with,
\* and every way of handing the envelope over but the bit flips.
Init ==
  /\ \E password \in Passwords, file_bytes \in Messages, opener \in Passwords :
       /\ enc = [t \in Tasks |-> IF t = 1 THEN NewEnc(password, file_bytes) ELSE OffEnc]
       /\ dec = [t \in Tasks |-> IF t = 1 THEN NewDec(opener) ELSE OffDec]
  /\ wire = [t \in Tasks |-> NoWire]
  /\ entropy = FullEntropy

Next ==
  \E t \in Tasks :
    \/ EncryptStep(t)
    \/ Deliver(t)
    \/ RemoveField(t)
    \/ CorruptField(t)
    \/ SetParams(t)
    \/ SealElsewhere(t)
    \/ HandJunk(t)
    \/ DecryptStep(t)

Spec == Init /\ [][Next]_vars

\* Tampering: one task, the right password, one salt and one IV, and every
\* bit of every character of ciphertext_b64 flipped in turn.
TheSalt == Pattern(SaltLen, 7, 3)

TheIV == Pattern(AesBlock, 13, 5)

InitTamper ==
  /\ \E file_bytes \in Messages :
       /\ enc = [t \in Tasks |-> IF t = 1 THEN NewEnc(PASSWORD, file_bytes) ELSE OffEnc]
       /\ dec = [t \in Tasks |-> IF t = 1 THEN NewDec(PASSWORD) ELSE OffDec]
  /\ wire = [t \in Tasks |-> NoWire]
  /\ entropy = [salts |-> {TheSalt}, ivs |-> {TheIV}, clock |-> Clock]

NextTamper ==
  \E t \in Tasks :
    \/ EncryptStep(t)
    \/ FlipBit(t)
    \/ DecryptStep(t)

SpecTamper == InitTamper /\ [][NextTamper]_vars

\* Concurrent calls: every task runs, each on inputs of its own and each
\* opened with either password; the steps of the tasks' encrypt_file and
\* decrypt_file calls interleave freely.
PasswordOf(t) == CHOOSE password \in Passwords : (password = PASSWORD) <=> (t % 2 = 1)

FileOf(t) == IF t % 2 = 1 THEN HelloWorld ELSE Pattern(16, 37, 11)

InitConc ==
  /\ enc = [t \in Tasks |-> NewEnc(PasswordOf(t), FileOf(t))]
  /\ \E openers \in [Tasks -> Passwords] : dec = [t \in Tasks |-> NewDec(openers[t])]
  /\ wire = [t \in Tasks |-> NoWire]
  /\ entropy = [salts |-> Salts, ivs |-> {TheIV}, clock |-> Clock]

NextConc ==
  \E t \in Tasks :
    \/ EncryptStep(t)
    \/ Deliver(t)
    \/ DecryptStep(t)

SpecConc == InitConc /\ [][NextConc]_vars

(***************************************************************************)
(* Properties                                                              *)
(***************************************************************************)
Done(t) == dec[t].pc = "done"

Raised(t) == Done(t) /\ dec[t].ret.exc # ""

\* The failure kinds the specification speaks of, for the exceptions the
\* code lets through: a token that does not verify; parameters Scrypt,
\* OpenSSL or Fernet's key check refuse; everything else, which comes from
\* reading the envelope.
ErrorKind(f) ==
  IF f.ret.exc = "" THEN "none"
  ELSE IF f.ret.exc = "InvalidToken" THEN "AuthenticationError"
  ELSE IF f.line = 101 \/ f.ret.exc \in {"ValueError", "MemoryError"} THEN "ParameterError"
  ELSE "FormatError"

\* The envelope encrypt_file returned to task t, as members in their order.
EnvelopeOf(t) == Members(enc[t].ret.val)

Returned(t) == enc[t].pc = "done" /\ enc[t].ret.exc = ""

\* C1: an envelope that arrives as encrypt_file returned it and is opened
\* with the password it was sealed with gives back exactly the file, the
\* empty file included; and encrypt_file always returns.
RoundTrip ==
  \A t \in Tasks :
    /\ enc[t].pc = "done" => enc[t].ret.exc = ""
    /\ (Done(t) /\ wire[t].how = "intact" /\ dec[t].password = enc[t].password)
         => dec[t].ret = Ok(enc[t].file_bytes)

\* C1: the empty file has made the round trip.
RoundTripOfEmpty ==
  \E t \in Tasks :
    /\ Done(t) /\ wire[t].how = "intact" /\ dec[t].password = enc[t].password
    /\ enc[t].file_bytes = <<>>
    /\ dec[t].ret = Ok(<<>>)

TamperNeverAccepted ==
  \A t \in Tasks : (Done(t) /\ wire[t].how = "flip") => dec[t].ret.exc # ""

\* C4 (as claimed): an envelope that lost one of its six fields, or whose
\* salt is valid base64 no longer, fails with a FormatError.
MalformedIsFormatError ==
  \A t \in Tasks :
    (Done(t) /\ (wire[t].how = "remove" \/ (wire[t].how = "corrupt" /\ wire[t].field = 1)))
      => ErrorKind(dec[t]) = "FormatError"

\* Parameters that are no valid Scrypt parameters, or that OpenSSL's limits
\* (the only ceiling on the way) refuse.
Unsafe(n, r, p) ==
  \/ n.t # "int" \/ r.t # "int" \/ p.t # "int"
  \/ n.v < 2 \/ ~IsPowerOfTwo(n.v) \/ r.v < 1 \/ p.v < 1
  \/ ExceedsScryptLimits(n.v, r.v, p.v)

\* C5 (as claimed): an envelope whose n is no power of two, or whose
\* parameters exceed the ceiling, fails with a ParameterError before
\* kdf.derive is called.
ParameterSafety ==
  \A t \in Tasks :
    (Done(t) /\ wire[t].how = "params" /\ Unsafe(dec[t].n, dec[t].r, dec[t].p))
      => ErrorKind(dec[t]) = "ParameterError" /\ ~dec[t].derive_called

\* The six field names in their order.
FieldNames == <<K_salt, K_length, K_n, K_r, K_p, K_ciphertext_b64>>

IsB64UrlChar(c) == B64Value(c) >= 0 /\ c # 43 /\ c # 47

\* A text of the URL-safe alphabet only.
B64UrlUnpadded(s) == \A i \in 1..Len(s) : IsB64UrlChar(s[i])

\* A text of the URL-safe alphabet followed by the "=" that fill its last
\* four characters.
B64UrlPadded(s) ==
  /\ Len(s) % 4 = 0
  /\ \E k \in 0..2 :
       /\ k <= Len(s)
       /\ \A i \in 1..Len(s) : IF i <= Len(s) - k THEN IsB64UrlChar(s[i]) ELSE s[i] = PadChar

\* What C7 says of an envelope apart from the padding: the six fields in
\* their order, the parameters as integers, a salt that decodes to the 32
\* bytes drawn and a ciphertext_b64 that decodes to the token.
SixFields(t, ms) ==
  /\ Len(ms) = FieldCount
  /\ \A k \in 1..FieldCount : ms[k][1] = FieldNames[k]
  /\ ms[1][2].t = "str" /\ ms[FieldCount][2].t = "str"
  /\ <<ms[2][2], ms[3][2], ms[4][2], ms[5][2]>>
       = <<JInt(DefaultLength), JInt(DefaultN), JInt(DefaultR), JInt(DefaultP)>>
  /\ urlsafe_b64decode(ms[1][2].s) = Ok(enc[t].salt)
  /\ Len(enc[t].salt) = SaltLen
  /\ urlsafe_b64decode(ms[FieldCount][2].s) = Ok(enc[t].ciphertext)

\* C7 (amended): every envelope encrypt_file returns holds exactly the six
\* fields in their order; salt and ciphertext_b64 are base64url WITH "="
\* padding to a multiple of four characters, the salt 44 characters of
\* which the last one is "=", and the salt decodes to exactly 32 bytes.
WireFormatPadded ==
  \A t \in Tasks :
    Returned(t) =>
      \E ms \in {EnvelopeOf(t)} :
        /\ SixFields(t, ms)
        /\ B64UrlPadded(ms[1][2].s) /\ B64UrlPadded(ms[FieldCount][2].s)
        /\ Len(ms[1][2].s) = 44 /\ ms[1][2].s[44] = PadChar /\ ms[1][2].s[43] # PadChar

\* C7: an envelope was returned whose ciphertext_b64 ends in "==".
WireFormatSeen ==
  \E t \in Tasks :
    /\ Returned(t)
    /\ \E ms \in {EnvelopeOf(t)} :
         /\ Len(ms) = FieldCount
         /\ SubSeq(ms[FieldCount][2].s, Len(ms[FieldCount][2].s) - 1, Len(ms[FieldCount][2].s))
              = <<PadChar, PadChar>>

\* C7 (as claimed): the six fields in their order, and salt and
\* ciphertext_b64 base64url without padding characters.
WireFormatUnpadded ==
  \A t \in Tasks :
    Returned(t) =>
      \E ms \in {EnvelopeOf(t)} :
        /\ SixFields(t, ms)
        /\ B64UrlUnpadded(ms[1][2].s) /\ B64UrlUnpadded(ms[FieldCount][2].s)

\* The key line 102 derives from a password and from what an envelope of
\* six fields says.
KeyFrom(password, ms) ==
  urlsafe_b64encode(
    ScryptBytes(EncodeUtf8(password).val, urlsafe_b64decode(ms[1][2].s).val,
                ms[2][2].v, ms[3][2].v, ms[4][2].v, ms[5][2].v))

\* C8: an envelope sealed elsewhere under valid parameters that are not
\* encrypt_file's defaults opens to its plaintext with the right password;
\* and whenever decrypt_file has derived a key, it is the key of its
\* password argument and of the salt, length, n, r, p its envelope holds.
SelfSufficient ==
  \A t \in Tasks :
    /\ (Done(t) /\ wire[t].how = "elsewhere" /\ dec[t].password = enc[t].password)
         => dec[t].ret = Ok(enc[t].file_bytes)
    /\ (dec[t].derive_returned /\ wire[t].how \in {"intact", "elsewhere", "params"})
         => dec[t].symmetric_key = KeyFrom(dec[t].password, Members(wire[t].bytes))

\* C8: an envelope sealed with n other than the default has been opened.
SelfSufficientSeen ==
  \E t \in Tasks :
    /\ Done(t) /\ wire[t].how = "elsewhere"
    /\ dec[t].kdf.n # DefaultN
    /\ dec[t].ret = Ok(enc[t].file_bytes)

\* The key of task t's own password and own salt under the defaults.
OwnKey(t) ==
  urlsafe_b64encode(
    ScryptBytes(EncodeUtf8(dec[t].password).val, enc[t].salt,
                DefaultLength, DefaultN, DefaultR, DefaultP))

\* C9: under every interleaving, a call that has ended has the outcome the
\* function gives on its inputs run alone, and decrypt_file holds no salt
\* and no key but the ones of its own password and envelope.
ConcurrencySafe ==
  \A t \in Tasks :
    /\ enc[t].pc = "done"
         => enc[t].ret = encrypt_file(enc[t].password, enc[t].file_bytes,
                                      enc[t].salt, enc[t].now, enc[t].iv)
    /\ Done(t) => dec[t].ret = decrypt_file(dec[t].password, wire[t].bytes)
    /\ dec[t].salt \in {<<>>, enc[t].salt}
    /\ dec[t].symmetric_key \in {<<>>, OwnKey(t)}

\* C9: one task's decrypt_file has returned its file while another task's,
\* on another salt, is between its statements.
ConcurrencySeen ==
  \E t \in Tasks, u \in Tasks :
    /\ t # u
    /\ Done(t) /\ dec[t].ret = Ok(enc[t].file_bytes)
    /\ dec[u].pc = "106"
    /\ enc[t].salt # enc[u].salt

\* C10: decrypt_file is at or past the reading of ciphertext_b64 (line 106)
\* only when kdf.derive has returned; a missing or undecodable
\* ciphertext_b64 is reported at line 106, after the derivation; and a
\* FormatError before kdf.derive is called comes from lines 95 to 99.
StepOrder ==
  \A t \in Tasks :
    /\ (dec[t].pc \in {"106", "109", "111"} \/ dec[t].ciphertext # <<>>
          \/ (Done(t) /\ (dec[t].line >= 106 \/ dec[t].ret.exc = "")))
         => dec[t].derive_returned
    /\ (Raised(t) /\ wire[t].field = FieldCount
          /\ (wire[t].how = "remove"
                \/ (wire[t].how = "corrupt" /\ dec[t].ret.exc = "binascii.Error")))
         => dec[t].line = 106 /\ dec[t].derive_returned
    /\ (Raised(t) /\ ~dec[t].derive_called /\ ErrorKind(dec[t]) = "FormatError")
         => dec[t].line \in {95, 97, 98, 99}

\* C10: an envelope without ciphertext_b64 has failed at line 106, the key
\* derived.
StepOrderSeen ==
  \E t \in Tasks :
    /\ Raised(t) /\ wire[t].how = "remove" /\ wire[t].field = FieldCount
    /\ dec[t].ret.exc = "KeyError" /\ dec[t].line = 106
    /\ dec[t].derive_returned

====
